---- MODULE Spec2Model ----
(***************************************************************************)
(* Day 1 of aoc2016 (src/solutions/day1.rs): a walk on the integer grid    *)
(* driven by "turn + distance" instructions.  The module models the        *)
(* Compass / Position / State data types, the instruction parsing done by  *)
(* State::process_cmd, the four solvers (solve1_seq, solve1_par,           *)
(* solve2_hash, solve2_lin) and the perpendicular line intersection test.  *)
(* Strings are sequences of one-character strings.                         *)
(***************************************************************************)
EXTENDS Integers, Sequences, FiniteSets, TLC

VARIABLES
    input,      \* the instruction text handed to the solvers
    pc,         \* which solver / harness step runs next
    cmds,       \* the remaining items of input.split(',') of the running loop
    state,      \* the local `state: State` of the running solver
    seqRes,     \* what solve1_seq returned
    cluster,    \* solve1_par: the array of leaf slices
    jobs,       \* solve1_par: the pieces of the parallel map/reduce
    parRes,     \* what solve1_par returned (or that it panicked)
    crumbs,     \* solve2_hash: the set of visited cells
    trail,      \* solve2_hash: the cells stepped on, in order (history variable)
    hashRes,    \* what solve2_hash returned
    history,    \* solve2_lin: the Vec of segment end points
    linRes,     \* what solve2_lin returned
    via,        \* which return statement each detector left through (history variable)
    operands,   \* arguments of the unit-level harnesses (Compass, Line)
    outcome     \* results of the unit-level harnesses

vars == <<input, pc, cmds, state, seqRes, cluster, jobs, parRes, crumbs,
          trail, hashRes, history, linRes, via, operands, outcome>>

(***************************************************************************)
(* Bounds of the model.                                                    *)
(***************************************************************************)
MaxTokens == 2      \* longest generated instruction list of the walk harness
MaxDetTokens == 4   \* longest generated instruction list of the detector harness
MaxDist == 2        \* largest generated distance (one digit)
MaxJobs == 3        \* most folds the parallel iterator is divided into
MaxChunks == 3      \* most chunks of the chunked-walk harness
MaxCoord == 1       \* line end points lie in -MaxCoord..MaxCoord

(***************************************************************************)
(* Compass                                                                 *)
(***************************************************************************)
Compass == {"North", "West", "South", "East"}

turn_left(c) ==
    CASE c = "North" -> "West"
      [] c = "West"  -> "South"
      [] c = "South" -> "East"
      [] c = "East"  -> "North"

turn_right_swapped(c) ==
    CASE c = "North" -> "East"
      [] c = "East"  -> "North"
      [] c = "South" -> "West"
      [] c = "West"  -> "South"

turn_right(c) ==
    CASE c = "North" -> "East"
      [] c = "East"  -> "South"
      [] c = "South" -> "West"
      [] c = "West"  -> "North"

as_u8(c) ==
    CASE c = "North" -> 0
      [] c = "West"  -> 1
      [] c = "South" -> 2
      [] c = "East"  -> 3

from_u8(n) ==
    CASE n = 0 -> "North"
      [] n = 1 -> "West"
      [] n = 2 -> "South"
      [] n = 3 -> "East"

\* impl Add for Compass; the u8 sum is at most 6, so it never wraps
CompassAdd(a, b) == from_u8((as_u8(a) + as_u8(b)) % 4)

(***************************************************************************)
(* Position                                                                *)
(***************************************************************************)
Position(x, y) == <<x, y>>

PositionAdd(p, q) == Position(p[1] + q[1], p[2] + q[2])

PositionSub(p, q) == Position(p[1] - q[1], p[2] - q[2])

Abs(n) == IF n < 0 THEN -n ELSE n

dist(p) == Abs(p[1]) + Abs(p[2])

(***************************************************************************)
(* State                                                                   *)
(***************************************************************************)
StateDefault == [compass |-> "North", position |-> Position(0, 0)]

\* Rust's char::is_whitespace, restricted to the characters of the model
IsWhitespace(c) == c = " "

RECURSIVE trim_left(_)
trim_left(s) ==
    IF s # <<>> /\ IsWhitespace(Head(s)) THEN trim_left(Tail(s)) ELSE s

Digits == <<"0", "1", "2", "3", "4", "5", "6", "7", "8", "9">>

IsDigit(c) == \E i \in 1..10 : Digits[i] = c

DigitVal(c) == (CHOOSE i \in 1..10 : Digits[i] = c) - 1

I32Max == 2147483647

\* the digits of s as a number, most significant first
RECURSIVE DecimalValue(_, _)
DecimalValue(s, acc) ==
    IF s = <<>> THEN acc ELSE DecimalValue(Tail(s), 10 * acc + DigitVal(Head(s)))

\* str::parse::<i32>: an optional sign, then at least one digit, in range
ParseI32(s) ==
    LET signed == s # <<>> /\ Head(s) \in {"+", "-"}
        body   == IF signed THEN Tail(s) ELSE s
        neg    == signed /\ Head(s) = "-"
    IN  IF body = <<>> \/ \E i \in 1..Len(body) : ~IsDigit(body[i])
          THEN [ok |-> FALSE, n |-> 0]
        ELSE LET v == DecimalValue(body, 0)
             IN  IF (neg /\ v > I32Max + 1) \/ (~neg /\ v > I32Max)
                   THEN [ok |-> FALSE, n |-> 0]
                 ELSE [ok |-> TRUE, n |-> IF neg THEN -v ELSE v]

Forward(c, d) ==
    CASE c = "North" -> Position(0, d)
      [] c = "West"  -> Position(-d, 0)
      [] c = "South" -> Position(0, -d)
      [] c = "East"  -> Position(d, 0)

\* a variant of process_cmd that takes a missing distance as zero
process_cmd_lenient(st, cmd) ==
    LET chars == trim_left(cmd)
    IN  IF chars = <<>> THEN [state |-> st, err |-> "none"]
        ELSE IF Head(chars) \notin {"L", "R"}
          THEN [state |-> st, err |-> "invalid turn"]
        ELSE LET c == IF Head(chars) = "L" THEN turn_left(st.compass)
                      ELSE turn_right(st.compass)
                 turned == [st EXCEPT !.compass = c]
                 parsed == ParseI32(Tail(chars))
             IN  IF Tail(chars) = <<>> THEN [state |-> turned, err |-> "none"]
                 ELSE IF ~parsed.ok THEN [state |-> turned, err |-> "parse int"]
                 ELSE [state |-> [turned EXCEPT !.position =
                                     PositionAdd(@, Forward(c, parsed.n))],
                       err |-> "none"]

\* State::process_cmd: the State it leaves behind and the error it returns
process_cmd(st, cmd) ==
    LET chars == trim_left(cmd)
    IN  IF chars = <<>> THEN [state |-> st, err |-> "none"]
        ELSE IF Head(chars) \notin {"L", "R"}
          THEN [state |-> st, err |-> "invalid turn"]
        ELSE LET c == IF Head(chars) = "L" THEN turn_left(st.compass)
                      ELSE turn_right(st.compass)
                 turned == [st EXCEPT !.compass = c]
                 parsed == ParseI32(Tail(chars))
             IN  IF ~parsed.ok THEN [state |-> turned, err |-> "parse int"]
                 ELSE [state |-> [turned EXCEPT !.position =
                                     PositionAdd(@, Forward(c, parsed.n))],
                       err |-> "none"]

Rotate(c, p) ==
    CASE c = "North" -> p
      [] c = "West"  -> Position(-p[2], p[1])
      [] c = "South" -> Position(-p[1], -p[2])
      [] c = "East"  -> Position(p[2], -p[1])

\* a variant of State + State with the East and West rotations exchanged
StateAddMirrored(a, b) ==
    [compass  |-> CompassAdd(a.compass, b.compass),
     position |-> PositionAdd(a.position,
                     Rotate(from_u8((4 - as_u8(a.compass)) % 4), b.position))]

\* impl Add for State
StateAdd(a, b) ==
    [compass  |-> CompassAdd(a.compass, b.compass),
     position |-> PositionAdd(a.position, Rotate(a.compass, b.position))]

(***************************************************************************)
(* str::split(',')                                                         *)
(***************************************************************************)
RECURSIVE SplitComma(_, _)
SplitComma(s, cur) ==
    IF s = <<>> THEN <<cur>>
    ELSE IF Head(s) = "," THEN <<cur>> \o SplitComma(Tail(s), <<>>)
    ELSE SplitComma(Tail(s), Append(cur, Head(s)))

Cmds(s) == SplitComma(s, <<>>)

\* solve1_seq as a function of its input: the call made on each leaf slice
RECURSIVE Solve1SeqLoop(_, _)
Solve1SeqLoop(st, cs) ==
    IF cs = <<>> THEN [tag |-> "Ok", state |-> st]
    ELSE LET r == process_cmd(st, Head(cs))
         IN  IF r.err # "none" THEN [tag |-> "Err", err |-> r.err]
             ELSE Solve1SeqLoop(r.state, Tail(cs))

Solve1Seq(s) ==
    IF s = <<>> THEN [tag |-> "Ok", state |-> StateDefault]
    ELSE Solve1SeqLoop(StateDefault, Cmds(s))

(***************************************************************************)
(* split and resurse_split of solve1_par                                   *)
(***************************************************************************)
IsTurn(c) == c = "L" \/ c = "R"

\* the first offset >= cut holding a turn character, or the length
RECURSIVE NextTurn(_, _)
NextTurn(s, cut) ==
    IF cut >= Len(s) \/ IsTurn(s[cut + 1]) THEN cut ELSE NextTurn(s, cut + 1)

\* a variant of split that cuts at the midpoint without looking for a turn
splitAtMidpoint(s) ==
    LET cut == Len(s) \div 2
    IN  <<SubSeq(s, 1, cut), SubSeq(s, cut + 1, Len(s))>>

\* every character of the model is one byte, so is_char_boundary holds
split(s) ==
    LET cut == NextTurn(s, Len(s) \div 2)
    IN  <<SubSeq(s, 1, cut), SubSeq(s, cut + 1, Len(s))>>

ClusterLen == 32

RECURSIVE resurse_split(_, _, _)
resurse_split(n, left, right) ==
    IF n = 2 THEN <<left, right>>
    ELSE LET l == split(left)
             r == split(right)
         IN  resurse_split(n \div 2, l[1], l[2]) \o resurse_split(n \div 2, r[1], r[2])

(***************************************************************************)
(* The instruction texts the harnesses draw from                           *)
(***************************************************************************)
Turns == {"L", "R"}

ValidTokens == {<<t, Digits[d + 1]>> : t \in Turns, d \in 1..MaxDist}

\* an unknown turn, a non-numeric distance, a turn without a distance
BadTokens == {<<"X", "1">>, <<"R", "X">>, <<"L">>}

Seps == {<<",", " ">>, <<",">>}

RECURSIVE Join(_, _)
Join(ts, sep) ==
    IF ts = <<>> THEN <<>>
    ELSE IF Len(ts) = 1 THEN ts[1]
    ELSE ts[1] \o sep \o Join(Tail(ts), sep)

Streams(toks, n) == UNION {[1..k -> toks] : k \in 0..n}

\* "R12, L3": a distance of two digits
TwoDigits == <<"R", "1", "2", ",", " ", "L", "3">>
\* "R2, L3"
Example1 == <<"R", "2", ",", " ", "L", "3">>
\* "R2, R2, R2"
Example2 == <<"R", "2", ",", " ", "R", "2", ",", " ", "R", "2">>
\* "R5, L5, R5, R3"
Example3 == <<"R", "5", ",", " ", "L", "5", ",", " ", "R", "5", ",", " ", "R", "3">>
\* "R8, R4, R4, R8"
Example4 == <<"R", "8", ",", " ", "R", "4", ",", " ", "R", "4", ",", " ", "R", "8">>
\* "R1, L1, L2, L1, L2": comes back to the origin along the first segment
Overlap == <<"R", "1", ",", " ", "L", "1", ",", " ", "L", "2", ",", " ",
             "L", "1", ",", " ", "L", "2">>

\* the tokens of the walk harness: both turns, distances of one and two digits
WalkTokens == {<<"L", "1">>, <<"R", "1">>, <<"L", "2">>, <<"R", "1", "2">>}

\* valid texts with either separator, texts with one bad token, the examples
WalkInputs ==
    {Join(ts, sep) : ts \in Streams(WalkTokens, MaxTokens), sep \in Seps}
    \cup {Join(ts, <<",", " ">>) :
            ts \in {u \in Streams(WalkTokens \cup BadTokens, MaxTokens) :
                      Cardinality({i \in DOMAIN u : u[i] \in BadTokens}) = 1}}
    \cup {TwoDigits, Example1, Example2, Example3}

DetectInputs ==
    {Join(ts, <<",", " ">>) : ts \in Streams(ValidTokens, MaxDetTokens)}
    \cup {Example4, Overlap}

\* the grammar [LR]\d+ with optional leading space, the distance fitting an i32
ValidToken(t) ==
    LET c == trim_left(t)
    IN  /\ Len(c) >= 2
        /\ IsTurn(c[1])
        /\ \A i \in 2..Len(c) : IsDigit(c[i])
        /\ ParseI32(Tail(c)).ok

Valid(s) == s = <<>> \/ \A i \in 1..Len(Cmds(s)) : ValidToken(Cmds(s)[i])

(***************************************************************************)
(* Results                                                                 *)
(***************************************************************************)
NotRun == [tag |-> "NotRun"]
Ok(v) == [tag |-> "Ok", val |-> v]
Err(e) == [tag |-> "Err", err |-> e]
Panic(e) == [tag |-> "Panic", err |-> e]

(***************************************************************************)
(* solve1_seq, one loop iteration per step                                 *)
(***************************************************************************)
SeqEnter ==
    /\ pc = "seq"
    /\ IF input = <<>>
         THEN /\ seqRes' = Ok(StateDefault)
              /\ pc' = "par"
              /\ UNCHANGED <<cmds, state>>
         ELSE /\ cmds' = Cmds(input)
              /\ state' = StateDefault
              /\ pc' = "seq_loop"
              /\ UNCHANGED seqRes
    /\ UNCHANGED <<input, cluster, jobs, parRes, crumbs, trail, hashRes,
                   history, linRes, via, operands, outcome>>

SeqCmd ==
    /\ pc = "seq_loop"
    /\ cmds # <<>>
    /\ LET r == process_cmd(state, Head(cmds))
       IN  /\ state' = r.state
           /\ IF r.err # "none"
                THEN /\ seqRes' = Err(r.err)
                     /\ pc' = "par"
                     /\ UNCHANGED cmds
                ELSE /\ cmds' = Tail(cmds)
                     /\ UNCHANGED <<seqRes, pc>>
    /\ UNCHANGED <<input, cluster, jobs, parRes, crumbs, trail, hashRes,
                   history, linRes, via, operands, outcome>>

SeqReturn ==
    /\ pc = "seq_loop"
    /\ cmds = <<>>
    /\ seqRes' = Ok(state)
    /\ pc' = "par"
    /\ UNCHANGED <<input, cmds, state, cluster, jobs, parRes, crumbs, trail,
                   hashRes, history, linRes, via, operands, outcome>>

(***************************************************************************)
(* solve1_par: the split into leaves, then the parallel map and reduce.    *)
(* A job is a run of consecutive leaves lo..hi; a job that is not divided  *)
(* further folds its leaves from the identity State::default().            *)
(***************************************************************************)
\* folds: how many sequential folds the job stands for (1 until it is reduced)
Job(lo, hi, done, val, folds) ==
    [lo |-> lo, hi |-> hi, done |-> done, val |-> val, folds |-> folds]

RECURSIVE TotalFolds(_)
TotalFolds(js) == IF js = <<>> THEN 0 ELSE Head(js).folds + TotalFolds(Tail(js))

ParSplit ==
    /\ pc = "par"
    /\ LET halves == split(input)
       IN  cluster' = resurse_split(ClusterLen, halves[1], halves[2])
    /\ jobs' = <<Job(1, ClusterLen, FALSE, StateDefault, 1)>>
    /\ pc' = "par_run"
    /\ UNCHANGED <<input, cmds, state, seqRes, parRes, crumbs, trail, hashRes,
                   history, linRes, via, operands, outcome>>

Replace(seq, i, new) == SubSeq(seq, 1, i - 1) \o new \o SubSeq(seq, i + 1, Len(seq))

\* the producer of a job is split at its midpoint into two jobs
RaySplit(i) ==
    /\ pc = "par_run"
    /\ TotalFolds(jobs) < MaxJobs
    /\ ~jobs[i].done
    /\ jobs[i].hi > jobs[i].lo
    /\ LET j == jobs[i]
           mid == j.lo + (j.hi - j.lo + 1) \div 2
       IN  jobs' = Replace(jobs, i, <<Job(j.lo, mid - 1, FALSE, StateDefault, 1),
                                      Job(mid, j.hi, FALSE, StateDefault, 1)>>)
    /\ UNCHANGED <<input, pc, cmds, state, seqRes, cluster, parRes, crumbs,
                   trail, hashRes, history, linRes, via, operands, outcome>>

\* .map(|p| solve1_seq(p).unwrap()) folded over leaves lo..hi with `a + b`,
\* starting from the identity; the first leaf that fails ends the fold
RECURSIVE FoldLeaves(_, _, _)
FoldLeaves(cl, lo, hi) ==
    IF hi < lo THEN [tag |-> "Ok", state |-> StateDefault]
    ELSE LET acc == FoldLeaves(cl, lo, hi - 1)
             r == Solve1Seq(cl[hi])
         IN  IF acc.tag = "Err" THEN acc
             ELSE IF r.tag = "Err" THEN r
             ELSE [tag |-> "Ok", state |-> StateAdd(acc.state, r.state)]

RayFold(i) ==
    /\ pc = "par_run"
    /\ ~jobs[i].done
    /\ LET j == jobs[i]
           r == FoldLeaves(cluster, j.lo, j.hi)
       IN  IF r.tag = "Err"
             THEN /\ parRes' = Panic(r.err)
                  /\ pc' = "hash"
                  /\ UNCHANGED jobs
             ELSE /\ jobs' = [jobs EXCEPT ![i] = Job(j.lo, j.hi, TRUE, r.state, 1)]
                  /\ UNCHANGED <<parRes, pc>>
    /\ UNCHANGED <<input, cmds, state, seqRes, cluster, crumbs, trail,
                   hashRes, history, linRes, via, operands, outcome>>

\* two finished neighbours are reduced with `a + b`, the left one first
RayReduce(i) ==
    /\ pc \in {"par_run", "add_run"}
    /\ i < Len(jobs)
    /\ jobs[i].done /\ jobs[i + 1].done
    /\ jobs' = Replace(SubSeq(jobs, 1, i) \o SubSeq(jobs, i + 2, Len(jobs)), i,
                       <<Job(jobs[i].lo, jobs[i + 1].hi, TRUE,
                             StateAdd(jobs[i].val, jobs[i + 1].val),
                             jobs[i].folds + jobs[i + 1].folds)>>)
    /\ UNCHANGED <<input, pc, cmds, state, seqRes, cluster, parRes, crumbs,
                   trail, hashRes, history, linRes, via, operands, outcome>>

ParReturn ==
    /\ pc = "par_run"
    /\ Len(jobs) = 1
    /\ jobs[1].done
    /\ parRes' = Ok(jobs[1].val.position)
    /\ pc' = "hash"
    /\ UNCHANGED <<input, cmds, state, seqRes, cluster, jobs, crumbs, trail,
                   hashRes, history, linRes, via, operands, outcome>>

(***************************************************************************)
(* solve2_hash, one instruction per step                                   *)
(***************************************************************************)
Origin == Position(0, 0)

\* a variant that starts with no crumb at all
NoCrumbs == {}

\* crumbs.insert(Position(0,0))
SeedCrumbs == {Origin}

HashEnter ==
    /\ pc = "hash"
    /\ cmds' = Cmds(input)
    /\ state' = StateDefault
    /\ crumbs' = SeedCrumbs
    /\ trail' = <<Origin>>
    /\ pc' = "hash_loop"
    /\ UNCHANGED <<input, seqRes, cluster, jobs, parRes, hashRes, history,
                   linRes, via, operands, outcome>>

\* a variant of the crumb loop that only looks at the cell the move ends on
RECURSIVE DropCrumbsAtEnd(_, _, _, _, _)
DropCrumbsAtEnd(current, delta, n, cr, tr) ==
    IF n = 0 THEN [hit |-> FALSE, crumbs |-> cr, trail |-> tr]
    ELSE LET next == PositionAdd(current, delta)
         IN  IF n = 1 /\ next \in cr
               THEN [hit |-> TRUE, cell |-> next, crumbs |-> cr,
                     trail |-> Append(tr, next)]
             ELSE DropCrumbsAtEnd(next, delta, n - 1, cr \cup {next}, Append(tr, next))

\* for _ in 0..dist { current += delta; if !crumbs.insert(current) { return } }
RECURSIVE DropCrumbs(_, _, _, _, _)
DropCrumbs(current, delta, n, cr, tr) ==
    IF n = 0 THEN [hit |-> FALSE, crumbs |-> cr, trail |-> tr]
    ELSE LET next == PositionAdd(current, delta)
         IN  IF next \in cr
               THEN [hit |-> TRUE, cell |-> next, crumbs |-> cr,
                     trail |-> Append(tr, next)]
             ELSE DropCrumbs(next, delta, n - 1, cr \cup {next}, Append(tr, next))

HashCmd ==
    /\ pc = "hash_loop"
    /\ cmds # <<>>
    /\ LET current == state.position
           r == process_cmd(state, Head(cmds))
           delta == Forward(r.state.compass, 1)
           n == Abs(dist(PositionSub(current, r.state.position)))
           walk == DropCrumbs(current, delta, n, crumbs, trail)
       IN  /\ state' = r.state
           /\ IF r.err # "none"
                THEN /\ hashRes' = Err(r.err)
                     /\ pc' = "lin"
                     /\ UNCHANGED <<cmds, crumbs, trail, via>>
                ELSE /\ crumbs' = walk.crumbs
                     /\ trail' = walk.trail
                     /\ IF walk.hit
                          THEN /\ hashRes' = Ok(walk.cell)
                               /\ via' = [via EXCEPT !.hash = "scan"]
                               /\ pc' = "lin"
                               /\ UNCHANGED cmds
                          ELSE /\ cmds' = Tail(cmds)
                               /\ UNCHANGED <<hashRes, via, pc>>
    /\ UNCHANGED <<input, seqRes, cluster, jobs, parRes, history, linRes,
                   operands, outcome>>

\* "If there is no intersection, we return the last position"
HashReturn ==
    /\ pc = "hash_loop"
    /\ cmds = <<>>
    /\ hashRes' = Ok(state.position)
    /\ via' = [via EXCEPT !.hash = "end"]
    /\ pc' = "lin"
    /\ UNCHANGED <<input, cmds, state, seqRes, cluster, jobs, parRes, crumbs,
                   trail, history, linRes, operands, outcome>>

\* solve2_hash as a function of its input: what it returns, and through
\* which return statement
RECURSIVE Solve2HashLoop(_, _, _)
Solve2HashLoop(st, cr, cs) ==
    IF cs = <<>> THEN [ret |-> Ok(st.position), via |-> "end"]
    ELSE LET r == process_cmd(st, Head(cs))
             delta == Forward(r.state.compass, 1)
             n == Abs(dist(PositionSub(st.position, r.state.position)))
             walk == DropCrumbs(st.position, delta, n, cr, <<>>)
         IN  IF r.err # "none" THEN [ret |-> Err(r.err), via |-> "error"]
             ELSE IF walk.hit THEN [ret |-> Ok(walk.cell), via |-> "scan"]
             ELSE Solve2HashLoop(r.state, walk.crumbs, Tail(cs))

Solve2Hash(s) == Solve2HashLoop(StateDefault, SeedCrumbs, Cmds(s))

(***************************************************************************)
(* Line and the perpendicular intersection test                            *)
(***************************************************************************)
Line(p, q) == <<p, q>>

Max(a, b) == IF a >= b THEN a ELSE b
Min(a, b) == IF a <= b THEN a ELSE b

None == [some |-> FALSE]
Some(p) == [some |-> TRUE, val |-> p]

\* a variant of intersects that always takes the first line as the vertical one
IntersectsFirstVertical(a, b) ==
    LET vert == a
        horz == b
        c1 == /\ horz[1][2] <= Max(vert[1][2], vert[2][2])
              /\ horz[1][2] >= Min(vert[1][2], vert[2][2])
        c2 == /\ vert[1][1] <= Max(horz[1][1], horz[2][1])
              /\ vert[1][1] >= Min(horz[1][1], horz[2][1])
    IN  IF c1 /\ c2 THEN Some(Position(vert[1][1], horz[1][2])) ELSE None

\* impl Intersects for (Line, Line)
Intersects(a, b) ==
    LET canonical == a[1][1] = a[2][1]
        vert == IF canonical THEN a ELSE b
        horz == IF canonical THEN b ELSE a
        c1 == /\ horz[1][2] <= Max(vert[1][2], vert[2][2])
              /\ horz[1][2] >= Min(vert[1][2], vert[2][2])
        c2 == /\ vert[1][1] <= Max(horz[1][1], horz[2][1])
              /\ vert[1][1] >= Min(horz[1][1], horz[2][1])
    IN  IF c1 /\ c2 THEN Some(Position(vert[1][1], horz[1][2])) ELSE None

(***************************************************************************)
(* solve2_lin, one instruction per step                                    *)
(***************************************************************************)
Pos(p) == [tag |-> "Position", val |-> p]

LinEnter ==
    /\ pc = "lin"
    /\ cmds' = Cmds(input)
    /\ state' = StateDefault
    /\ history' = <<>>
    /\ pc' = "lin_loop"
    /\ UNCHANGED <<input, seqRes, cluster, jobs, parRes, crumbs, trail,
                   hashRes, linRes, via, operands, outcome>>

\* the scan of history from entry i on (idx = i - 1 in the code)
RECURSIVE ScanHistory(_, _, _, _, _)
ScanHistory(hist, i, prev, line, orient) ==
    IF i > Len(hist) THEN None
    ELSE IF (i - 1) % 2 # orient THEN ScanHistory(hist, i + 1, hist[i], line, orient)
    ELSE LET p == Intersects(Line(prev, hist[i]), line)
         IN  IF p.some
               THEN IF p.val = line[1]
                      THEN ScanHistory(hist, i + 1, prev, line, orient)
                    ELSE p
             ELSE ScanHistory(hist, i + 1, hist[i], line, orient)

LinCmd ==
    /\ pc = "lin_loop"
    /\ cmds # <<>>
    /\ LET current == state
           r == process_cmd(state, Head(cmds))
           orient == IF current.compass \in {"North", "South"} THEN 1 ELSE 0
           line == Line(current.position, r.state.position)
           p == ScanHistory(history, 1, Origin, line, orient)
       IN  /\ state' = r.state
           /\ IF p.some
                THEN /\ linRes' = Pos(p.val)
                     /\ via' = [via EXCEPT !.lin = "scan"]
                     /\ pc' = "done"
                     /\ UNCHANGED <<cmds, history>>
                ELSE /\ history' = Append(history, r.state.position)
                     /\ cmds' = Tail(cmds)
                     /\ UNCHANGED <<linRes, via, pc>>
    /\ UNCHANGED <<input, seqRes, cluster, jobs, parRes, crumbs, trail,
                   hashRes, operands, outcome>>

\* "If nothing is found, return the last position"
LinReturn ==
    /\ pc = "lin_loop"
    /\ cmds = <<>>
    /\ linRes' = Pos(state.position)
    /\ via' = [via EXCEPT !.lin = "end"]
    /\ pc' = "done"
    /\ UNCHANGED <<input, cmds, state, seqRes, cluster, jobs, parRes, crumbs,
                   trail, hashRes, history, operands, outcome>>

(***************************************************************************)
(* Unit-level harnesses: they apply the pure operations to drawn operands, *)
(* the way test::state_add and test::line_intersects do.                   *)
(***************************************************************************)
Idle == [kind |-> "none"]

\* turn_left / turn_right on operand a
CompassTurns ==
    /\ pc = "compass"
    /\ LET a == operands[1]
       IN  outcome' = [kind |-> "turns",
                       l  |-> turn_left(a),
                       r  |-> turn_right(a),
                       rl |-> turn_left(turn_right(a)),
                       lr |-> turn_right(turn_left(a)),
                       rr |-> turn_right(turn_right(a)),
                       rrrr |-> turn_right(turn_right(turn_right(turn_right(a))))]
    /\ pc' = "compass_add"
    /\ UNCHANGED <<input, cmds, state, seqRes, cluster, jobs, parRes, crumbs,
                   trail, hashRes, history, linRes, via, operands>>

\* Compass + Compass on operands a, b, c
CompassSums ==
    /\ pc = "compass_add"
    /\ LET a == operands[1]
           b == operands[2]
           c == operands[3]
       IN  outcome' = [kind |-> "sums",
                       turns |-> outcome,
                       ab_c |-> CompassAdd(CompassAdd(a, b), c),
                       a_bc |-> CompassAdd(a, CompassAdd(b, c)),
                       ab |-> CompassAdd(a, b),
                       ba |-> CompassAdd(b, a),
                       na |-> CompassAdd("North", a),
                       an |-> CompassAdd(a, "North"),
                       ae |-> CompassAdd(a, "East"),
                       aw |-> CompassAdd(a, "West")]
    /\ pc' = "done"
    /\ UNCHANGED <<input, cmds, state, seqRes, cluster, jobs, parRes, crumbs,
                   trail, hashRes, history, linRes, via, operands>>

\* (a, b).intersects() and (b, a).intersects()
LineIntersects ==
    /\ pc = "line"
    /\ outcome' = [kind |-> "line",
                   ab |-> Intersects(operands[1], operands[2]),
                   ba |-> Intersects(operands[2], operands[1])]
    /\ pc' = "done"
    /\ UNCHANGED <<input, cmds, state, seqRes, cluster, jobs, parRes, crumbs,
                   trail, hashRes, history, linRes, via, operands>>

\* each chunk is walked on its own with solve1_seq
WalkChunks ==
    /\ pc = "add"
    /\ \A k \in 1..Len(cluster) : Solve1Seq(cluster[k]).tag = "Ok"
    /\ jobs' = [k \in 1..Len(cluster) |->
                    Job(k, k, TRUE, Solve1Seq(cluster[k]).state, 1)]
    /\ pc' = "add_run"
    /\ UNCHANGED <<input, cmds, state, seqRes, cluster, parRes, crumbs, trail,
                   hashRes, history, linRes, via, operands, outcome>>

(***************************************************************************)
(* Operands of the harnesses                                               *)
(***************************************************************************)
Coords == -MaxCoord..MaxCoord

HorizontalLines ==
    {Line(Position(x0, y), Position(x1, y)) : x0 \in Coords, x1 \in Coords, y \in Coords}
    \ {Line(Position(x, y), Position(x, y)) : x \in Coords, y \in Coords}

VerticalLines ==
    {Line(Position(x, y0), Position(x, y1)) : x \in Coords, y0 \in Coords, y1 \in Coords}
    \ {Line(Position(x, y), Position(x, y)) : x \in Coords, y \in Coords}

IsNonDecreasing(c) == \A i \in DOMAIN c : \A j \in DOMAIN c : i <= j => c[i] <= c[j]

\* the chunks that the cut offsets c (counted in tokens) divide ts into
ChunksAt(ts, c) ==
    [j \in 1..(Len(c) + 1) |->
        LET from == IF j = 1 THEN 1 ELSE c[j - 1] + 1
            to   == IF j = Len(c) + 1 THEN Len(ts) ELSE c[j]
        IN  Join(SubSeq(ts, from, to), <<",", " ">>)]

Chunkings(ts) ==
    {ChunksAt(ts, c) :
        c \in {d \in UNION {[1..(m - 1) -> 0..Len(ts)] : m \in 1..MaxChunks} :
                  IsNonDecreasing(d)}}

(***************************************************************************)
(* Specifications                                                          *)
(***************************************************************************)
Unused ==
    /\ cmds = <<>>
    /\ state = StateDefault
    /\ seqRes = NotRun
    /\ cluster = <<>>
    /\ jobs = <<>>
    /\ parRes = NotRun
    /\ crumbs = {}
    /\ trail = <<>>
    /\ hashRes = NotRun
    /\ history = <<>>
    /\ linRes = NotRun
    /\ via = [hash |-> "none", lin |-> "none"]
    /\ outcome = Idle

\* the four solvers, each applied to the same instruction text; a panic of
\* solve1_par is recorded as its outcome and the next solver still runs
Init ==
    /\ input \in WalkInputs
    /\ pc = "seq"
    /\ operands = <<>>
    /\ Unused

Next ==
    \/ SeqEnter
    \/ SeqCmd
    \/ SeqReturn
    \/ ParSplit
    \/ \E i \in 1..MaxJobs : i <= Len(jobs) /\ RaySplit(i)
    \/ \E i \in 1..MaxJobs : i <= Len(jobs) /\ RayFold(i)
    \/ \E i \in 1..MaxJobs : RayReduce(i)
    \/ ParReturn
    \/ HashEnter
    \/ HashCmd
    \/ HashReturn
    \/ LinEnter
    \/ LinCmd
    \/ LinReturn

Spec == Init /\ [][Next]_vars

\* the two intersection detectors on one instruction text
InitDetect ==
    /\ input \in DetectInputs
    /\ pc = "hash"
    /\ operands = <<>>
    /\ Unused

NextDetect ==
    \/ HashEnter
    \/ HashCmd
    \/ HashReturn
    \/ LinEnter
    \/ LinCmd
    \/ LinReturn

SpecDetect == InitDetect /\ [][NextDetect]_vars

\* chunk walks combined with State + State in any grouping
InitAdd ==
    /\ operands \in Streams(ValidTokens, MaxTokens)
    /\ input = Join(operands, <<",", " ">>)
    /\ cluster \in Chunkings(operands)
    /\ pc = "add"
    /\ cmds = <<>>
    /\ state = StateDefault
    /\ seqRes = NotRun
    /\ jobs = <<>>
    /\ parRes = NotRun
    /\ crumbs = {}
    /\ trail = <<>>
    /\ hashRes = NotRun
    /\ history = <<>>
    /\ linRes = NotRun
    /\ via = [hash |-> "none", lin |-> "none"]
    /\ outcome = Idle

NextAdd ==
    \/ WalkChunks
    \/ \E i \in 1..MaxChunks : RayReduce(i)

SpecAdd == InitAdd /\ [][NextAdd]_vars

\* the Compass operations on three drawn directions
InitCompass ==
    /\ operands \in Compass \X Compass \X Compass
    /\ input = <<>>
    /\ pc = "compass"
    /\ Unused

NextCompass == CompassTurns \/ CompassSums

SpecCompass == InitCompass /\ [][NextCompass]_vars

\* the intersection test on a horizontal and a vertical line, in either order
InitLine ==
    /\ \E h \in HorizontalLines, v \in VerticalLines :
          operands \in {<<h, v>>, <<v, h>>}
    /\ input = <<>>
    /\ pc = "line"
    /\ Unused

NextLine == LineIntersects

SpecLine == InitLine /\ [][NextLine]_vars

(***************************************************************************)
(* Properties                                                              *)
(***************************************************************************)
Last(sq) == sq[Len(sq)]

NonEmptyLeaves == {k \in DOMAIN cluster : cluster[k] # <<>>}

\* C1: for every valid instruction text (the empty text and texts with fewer
\* tokens than leaves included) solve1_par returns Ok with the position
\* solve1_seq ends on, whatever the order in which the pieces of the parallel
\* iterator finish and however neighbouring partial results, each folded from
\* the identity State::default(), are grouped by the reduction.
C1_ParEqualsSeq ==
    (parRes # NotRun /\ Valid(input)) =>
        /\ seqRes.tag = "Ok"
        /\ parRes.tag = "Ok"
        /\ parRes.val = seqRes.val.position

C1_Witness ==
    /\ Valid(input)
    /\ parRes.tag = "Ok"
    /\ seqRes.tag = "Ok"
    /\ parRes.val = seqRes.val.position
    /\ parRes.val # Origin
    /\ Cardinality(NonEmptyLeaves) >= 2
    /\ jobs[1].folds >= 2

C3_DetectorsAgree ==
    (pc = "done" /\ Valid(input) /\ via.hash = "scan" /\ via.lin = "scan") =>
        hashRes.val = linRes.val

\* what solve2_hash returns when it finds a revisited cell, over the texts of
\* the detector harness
HashFoundReturns ==
    {Solve2Hash(s).ret : s \in {t \in DetectInputs : Solve2Hash(t).via = "scan"}}

NoRepeat(sq) == \A i \in DOMAIN sq : \A j \in DOMAIN sq : i # j => sq[i] # sq[j]

IsTurnOnly(t) == LET c == trim_left(t) IN Len(c) = 1 /\ IsTurn(c[1])

TurnOf(c, t) == IF trim_left(t)[1] = "L" THEN turn_left(c) ELSE turn_right(c)

\* C5 as stated: a token that is a turn character with no distance is
\* processed without error, turns the orientation and leaves the position
\* unchanged, so the walk goes on to return a final State.
C5_TurnOnlyIsValid ==
    [][(pc = "seq_loop" /\ cmds # <<>> /\ IsTurnOnly(Head(cmds))) =>
          /\ seqRes' = seqRes
          /\ state'.compass = TurnOf(state.compass, Head(cmds))
          /\ state'.position = state.position]_vars

\* C5 as amended: a token that is a turn character with no distance is
\* rejected: processing it returns a parse error and leaves the position
\* unchanged, so solve1_seq on a text containing such a token returns the
\* error and no final State.
C5_TurnOnlyIsRejected ==
    [][(pc = "seq_loop" /\ cmds # <<>> /\ IsTurnOnly(Head(cmds))) =>
          /\ seqRes' = Err("parse int")
          /\ state'.position = state.position]_vars

C5_Witness ==
    /\ pc = "par"
    /\ seqRes = Err("parse int")
    /\ Len(Cmds(input)) >= 2
    /\ IsTurnOnly(Head(cmds))

\* an unknown turn character, or a distance that is not a number
IsMalformed(t) ==
    LET c == trim_left(t)
    IN  /\ c # <<>>
        /\ \/ ~IsTurn(c[1])
           \/ Len(c) >= 2 /\ \E i \in 2..Len(c) : ~IsDigit(c[i])

HasMalformed(s) == \E i \in 1..Len(Cmds(s)) : IsMalformed(Cmds(s)[i])

\* C6: a malformed token anywhere in the text aborts every solver: each of
\* solve1_seq, solve1_par, solve2_hash and solve2_lin ends with the parse
\* error (for solve1_par, the panic of unwrap counts as such) and none returns
\* a position.
C6_MalformedAborts ==
    (pc = "done" /\ HasMalformed(input)) =>
        /\ seqRes.tag = "Err"
        /\ parRes.tag \in {"Err", "Panic"}
        /\ hashRes.tag = "Err"
        /\ linRes.tag = "Err"

(***************************************************************************)
(* The unit-step path of a text, told from the instruction grammar alone:  *)
(* the heading counts quarter turns clockwise from north.                  *)
(***************************************************************************)
UnitStep(h) ==
    CASE h = 0 -> <<0, 1>>
      [] h = 1 -> <<1, 0>>
      [] h = 2 -> <<0, -1>>
      [] h = 3 -> <<-1, 0>>

RECURSIVE Steps(_, _, _)
Steps(from, h, n) ==
    IF n = 0 THEN <<>>
    ELSE LET to == <<from[1] + UnitStep(h)[1], from[2] + UnitStep(h)[2]>>
         IN  <<to>> \o Steps(to, h, n - 1)

RECURSIVE PathFrom(_, _, _)
PathFrom(from, h, toks) ==
    IF toks = <<>> THEN <<>>
    ELSE LET t == trim_left(Head(toks))
             h2 == IF t[1] = "R" THEN (h + 1) % 4 ELSE (h + 3) % 4
             leg == Steps(from, h2, DecimalValue(Tail(t), 0))
         IN  leg \o PathFrom(IF leg = <<>> THEN from ELSE Last(leg), h2, Tail(toks))

UnitPath(s) == <<Origin>> \o (IF s = <<>> THEN <<>> ELSE PathFrom(Origin, 0, Cmds(s)))

IsRepeatAt(path, n) == \E j \in 1..(n - 1) : path[j] = path[n]

\* C7: for every valid text the breadcrumb detector returns the first cell of
\* the unit-step path, the origin counting as visited, that was stepped on
\* before; it falls through to the end only when the path has no such cell.
\* For "R8, R4, R4, R8" the returned cell is 4 away from the origin.
C7_FirstRevisitedCell ==
    (hashRes # NotRun /\ Valid(input)) =>
        LET path == UnitPath(input)
            repeats == {n \in DOMAIN path : IsRepeatAt(path, n)}
        IN  /\ repeats = {} => via.hash = "end"
            /\ repeats # {} =>
                  LET first == CHOOSE n \in repeats : \A m \in repeats : n <= m
                  IN  /\ via.hash = "scan"
                      /\ hashRes = Ok(path[first])
                      /\ trail = SubSeq(path, 1, first)
            /\ input = Example4 => dist(hashRes.val) = 4

C7_Witness ==
    /\ input = Example4
    /\ via.hash = "scan"
    /\ hashRes = Ok(Position(4, 0))

\* C8: Compass with + is the cyclic group of order 4 generated by the turns:
\* + is associative and commutative with North as identity, turn_left and
\* turn_right undo each other, turn_right is + East and turn_left is + West,
\* and four right turns, and no fewer, come back to the start.
C8_CompassGroup ==
    outcome.kind = "sums" =>
        LET a == operands[1]
            t == outcome.turns
        IN  /\ outcome.ab_c = outcome.a_bc
            /\ outcome.ab = outcome.ba
            /\ outcome.na = a /\ outcome.an = a
            /\ t.rl = a /\ t.lr = a
            /\ t.r = outcome.ae
            /\ t.l = outcome.aw
            /\ t.rrrr = a
            /\ Cardinality({a, t.r, t.rr, t.l}) = 4

C8_Witness ==
    /\ outcome.kind = "sums"
    /\ operands = <<"East", "South", "West">>
    /\ outcome.ab_c = "South"
    /\ outcome.turns.r = "South"

\* C9: when process_cmd rejects a token, the State it was called on is left
\* exactly as it was before the call.
C9_RejectedCmdLeavesState ==
    [][(/\ pc \in {"seq_loop", "hash_loop", "lin_loop"}
        /\ cmds # <<>>
        /\ process_cmd(state, Head(cmds)).err # "none") => state' = state]_vars

Between(x, a, b) == (a <= x /\ x <= b) \/ (b <= x /\ x <= a)

\* C10: for a horizontal and a vertical line of non-zero length, in either
\* argument order and with either end point order, intersects() returns
\* Some((vertical.x, horizontal.y)) exactly when the horizontal y lies in the
\* closed y-range of the vertical line and the vertical x in the closed
\* x-range of the horizontal one, None otherwise, and the same for (b, a).
C10_PerpendicularIntersection ==
    outcome.kind = "line" =>
        LET h == IF operands[1] \in HorizontalLines THEN operands[1] ELSE operands[2]
            v == IF operands[1] \in HorizontalLines THEN operands[2] ELSE operands[1]
            crossing == /\ Between(h[1][2], v[1][2], v[2][2])
                        /\ Between(v[1][1], h[1][1], h[2][1])
            expected == IF crossing THEN Some(<<v[1][1], h[1][2]>>) ELSE None
        IN  /\ outcome.ab = expected
            /\ outcome.ba = expected

C10_Witness ==
    /\ outcome.kind = "line"
    /\ operands[1] \in HorizontalLines
    /\ operands[1][1][1] > operands[1][2][1]
    /\ outcome.ab = Some(Position(operands[2][1][1], operands[1][1][2]))
    /\ outcome.ab = outcome.ba

====
